---- MODULE Spec2Model ----
(***************************************************************************)
(* The REST adapters of aioquant (Binance, Huobi, OKEx) as a state machine. *)
(*                                                                         *)
(* A caller (task) invokes one adapter operation at a time.  The code of   *)
(* an operation runs without interruption from one suspension point (the   *)
(* await of AsyncHttpRequests.fetch) to the next, as coroutines do on a    *)
(* single-threaded event loop; several callers may be suspended at once.   *)
(* A step of the model is therefore either the start of an operation up to *)
(* its first fetch (or its return, or its exception), or the delivery of a *)
(* fetch outcome followed by the code up to the next fetch or the return.  *)
(***************************************************************************)
EXTENDS Integers, Sequences, FiniteSets, TLC

\* ------------------------------------------------------------------ bounds

\* Number of callers that may have an operation in flight at the same time.
MaxTasks == 2
\* Longest id list handed to OKEx revoke_orders.
MaxIds == 11
\* Number of milliseconds the clock advances while the callers are observed.
MaxTicks == 2

\* ------------------------------------------------------- program constants

\* okex.py:206/211 and 215/220: `len(order_ids) > 10`, `order_ids[:10]`.
BatchLimit == 10

\* ------------------------------------------------------------------ values

\* Python's None where a string is expected (ids, keys, exception names).
None == "None"
\* Python's None in a result or error slot.
NoneV == [kind |-> "None"]
\* A Python str in a result or error slot.
Str(s) == [kind |-> "str", s |-> s]
\* An optional string argument as a value: None stays None.
Val(s) == IF s = None THEN NoneV ELSE Str(s)
\* A response body: the exchange's JSON object.  `status` is Huobi's envelope
\* field, `result` OKEx's; "absent" means the key is not in the object.
\* `data` is the account list of Huobi's /v1/account/accounts.
Body(status, result, data) ==
    [kind |-> "dict", status |-> status, result |-> result, data |-> data]
\* The same JSON object delivered as text (fetch could not decode it itself).
Text(body) == [kind |-> "text", json |-> body]

Tasks == 1..MaxTasks
Exchanges == {"binance", "huobi", "okex"}
SecretKey == "secret"

\* An entry of a Python dict, and the dict as its entries in insertion order.
KV(k, v) == [k |-> k, v |-> v]
Dict(items) == [kind |-> "map", items |-> items]
\* A Python list of strings.
List(seq) == [kind |-> "list", items |-> seq]

\* json.dumps of a request body.
JsonDumps(v) == [kind |-> "json", of |-> v]

\* str(v), as str.format and str.join write a value into a query: None is
\* written "None", a string is itself.
StrOf(v) == IF v.kind = "None" THEN Str("None") ELSE v
\* urllib.parse.quote(str(v)).
Quote(v) == [kind |-> "quoted", of |-> StrOf(v)]

\* hmac.new(key, message, sha256): a digest that tells apart any two
\* (key, message) pairs, and its two encodings.
Hmac(key, message) == [kind |-> "hmac", key |-> key, message |-> message]
HexDigest(mac) == [kind |-> "hex", of |-> mac]
B64Encode(mac) == [kind |-> "base64", of |-> mac]

\* The clock in milliseconds at construction: one millisecond before a
\* second begins.
ClockStart == 2 * 1000 - 1
\* tools.get_cur_timestamp_ms() at clock reading `now`.
TimestampMs(now) == [kind |-> "ms", ms |-> now]
\* datetime.datetime.utcnow().strftime("%Y-%m-%dT%H:%M:%S") at `now`.
UtcSeconds(now) == [kind |-> "utc", s |-> now \div 1000]
\* str(time.time()).split(".")[0] + "." + str(time.time()).split(".")[1][:3]
\* where the first time.time() reads `now1` and the second `now2`.
OkexTimestamp(now1, now2) ==
    [kind |-> "epoch", s |-> now1 \div 1000, ms |-> now2 % 1000]

\* Python truthiness of the values the code tests with `if x:`.
Truthy(v) ==
    CASE v.kind = "None" -> FALSE
      [] v.kind = "str" -> v.s # ""
      [] v.kind \in {"map", "list"} -> v.items # <<>>
      [] OTHER -> TRUE

\* Python's order of the parameter names the adapters sort (str comparison).
KeyOrder == <<"AccessKeyId", "SignatureMethod", "SignatureVersion",
              "Timestamp", "account-id", "depth", "end", "granularity",
              "instrument_id", "limit", "size", "start", "symbol">>
Rank(k) == CHOOSE i \in 1..Len(KeyOrder) : KeyOrder[i] = k

\* sorted(params.keys()): the entries of a dict in the order of their keys.
RECURSIVE Insert(_, _)
Insert(kv, sorted) ==
    IF sorted = <<>> THEN <<kv>>
    ELSE IF Rank(kv.k) < Rank(Head(sorted).k) THEN <<kv>> \o sorted
    ELSE <<Head(sorted)>> \o Insert(kv, Tail(sorted))
RECURSIVE SortByKey(_)
SortByKey(items) ==
    IF items = <<>> THEN <<>>
    ELSE Insert(Head(items), SortByKey(Tail(items)))

\* dict.update: a key the dict has keeps its place and takes the new value,
\* a new key is appended.
HasKey(items, k) == \E i \in 1..Len(items) : items[i].k = k
\* The value a dict has under key k (Absent when it has no such key).
Absent == [kind |-> "absent"]
Field(items, k) ==
    IF HasKey(items, k)
    THEN items[CHOOSE i \in 1..Len(items) : items[i].k = k].v
    ELSE Absent
SetItem(items, kv) ==
    IF HasKey(items, kv.k)
    THEN [i \in 1..Len(items) |-> IF items[i].k = kv.k THEN kv ELSE items[i]]
    ELSE Append(items, kv)
RECURSIVE Update(_, _)
Update(items, more) ==
    IF more = <<>> THEN items
    ELSE Update(SetItem(items, Head(more)), Tail(more))

\* seq[:n]
Take(seq, n) == SubSeq(seq, 1, IF Len(seq) < n THEN Len(seq) ELSE n)

\* ------------------------------------------------------------------- state

VARIABLES
    secret_key,   \* adapter -> its _secret_key (None when constructed without)
    account_id,   \* HuobiRestAPI._account_id: None or the cached id
    task,         \* caller -> the operation it runs and where it is suspended
    exchange_accounts,
                  \* the account lists Huobi may answer this adapter's key with
    clock         \* the wall clock the adapters read, in milliseconds

vars == <<secret_key, account_id, task, exchange_accounts, clock>>

\* The arguments of an operation that its code branches on or places in the
\* request; an id list argument that is not given (None) is the empty list,
\* which the code's `if order_ids:` treats alike.
NoArgs == [order_id |-> None, client_oid |-> None, order_ids |-> <<>>,
           client_oids |-> <<>>, order_type |-> None, action |-> None,
           start |-> None, end |-> None, depth |-> None]
\* The two objects an operation hands to request: its query mapping and its
\* body.
Objects(params, body) == [params |-> params, body |-> body]
\* The request an operation hands to fetch: `uri` is the path as the pieces
\* str.format joins, `params` the query parameters, `body` the body and
\* `headers` the authentication headers that are sent, `auth` the auth
\* argument request was called with, `key` the secret the signature was
\* computed with (None: not signed), `built` the mapping and the body as the
\* operation built them, and `own` tells whether the mapping request stored
\* parameters in is the very object the operation handed in.
NoReq == [method |-> None, uri |-> <<>>, params |-> <<>>, body |-> NoneV,
          headers |-> <<>>, auth |-> FALSE, key |-> None,
          built |-> Objects(<<>>, NoneV), own |-> FALSE]
NoResp == [success |-> NoneV, error |-> NoneV]

\* A caller with no operation in progress.  `fetches` counts the fetch calls
\* of the operation in progress, `lookups` those of them that asked Huobi for
\* the account list, `lookup` tells how that request ended ("ok", "transport
\* error", "rejected"; "none" before), `lookup_timestamp` is the timestamp
\* that request was sent with, `account_id` is the operation's local variable
\* of that name and `now` the first of the two clock readings of OKEx request.
Idle == [pc |-> "idle", ex |-> None, op |-> None, args |-> NoArgs,
         req |-> NoReq, resp |-> NoResp, result |-> NoneV, error |-> NoneV,
         exc |-> None, fetches |-> 0, lookups |-> 0, lookup |-> "none",
         lookup_timestamp |-> NoneV, account_id |-> None, now |-> 0]

\* --------------------------------------------------------------- transport

\* What AsyncHttpRequests.fetch hands back, as (success, error): a transport
\* failure (connection error, timeout) gives (None, <exception>), an HTTP error
\* status gives (None, <response text>), and a delivered response gives
\* (<body>, None) with the body decoded to a dict or left as text.
TransportError == [kind |-> "exc", name |-> "TimeoutError"]
HttpError == Str("HTTP 400")
Failed(e) == [success |-> NoneV, error |-> e]
Delivered(b) == [success |-> b, error |-> NoneV]

\* json.loads of a delivered text.
JsonLoads(text) == text.json

\* The account lists Huobi may hold for a key: none, no spot account, a spot
\* account after another type and before a second one, one spot account.
Account(type, id) == [type |-> type, id |-> id]
AccountLists ==
    { <<>>,
      <<Account("margin", "a5")>>,
      <<Account("otc", "a7"), Account("spot", "a1"), Account("spot", "a3")>>,
      <<Account("spot", "a2")>> }

\* The JSON objects an exchange may answer a request with; the account list
\* request is answered with one of the lists the exchange holds for the key.
HuobiBodies(uri) ==
    IF uri = <<"/v1/account/accounts">>
    THEN {Body("ok", "absent", l) : l \in exchange_accounts}
         \cup {Body("error", "absent", <<>>), Body("absent", "absent", <<>>)}
    ELSE {Body(s, "absent", <<>>) : s \in {"ok", "error", "absent"}}
EnvelopeBodies ==
    {Body("absent", r, <<>>) : r \in {"true", "false", "absent"}}
    \cup {Body("error", "absent", <<>>)}
Bodies(ex, uri) == IF ex = "huobi" THEN HuobiBodies(uri) ELSE EnvelopeBodies

\* Every outcome fetch may report for a request of adapter `ex`.
FetchOutcomes(ex, uri) ==
    {Failed(TransportError), Failed(HttpError)}
    \cup {Delivered(b) : b \in Bodies(ex, uri)}
    \cup {Delivered(Text(b)) : b \in Bodies(ex, uri)}

\* ---------------------------------------------------------- the event loop

\* A coroutine runs from one suspension point to the next without another
\* one running in between: nothing else starts or resumes while a caller is
\* between the return (or exception) of its operation and its next call.
Ended(t) == task[t].pc \in {"done", "raised"}
Running(t) == Ended(t) \/ task[t].pc = "stamping"
Quiet == \A t \in Tasks : ~Running(t)

\* A caller that has no operation in progress may call any operation, once
\* the coroutine that is running has returned to its caller.
CanCall(t) == task[t].pc = "idle" /\ Quiet

\* The operations that call HuobiRestAPI._get_account_id first: the only
\* code that reads or writes adapter state after construction.
NeedsAccountId == {"get_account_balance", "create_order", "get_open_orders"}
UsesCache(rec) == rec.ex = "huobi" /\ rec.op \in NeedsAccountId

\* Every other operation touches its arguments and the immutable credentials
\* only, so its steps commute with those of the other callers: it is started
\* when no other caller is in flight, and while it is in flight no other
\* operation starts.  The operations on the account id interleave freely.
Alone(t) == \A u \in Tasks \ {t} : task[u].pc = "idle"
Among(t) == \A u \in Tasks \ {t} : task[u].pc = "idle" \/ UsesCache(task[u])

\* The caller starts operation `op` of adapter `ex` with arguments `args`.
Started(ex, op, args) == [Idle EXCEPT !.ex = ex, !.op = op, !.args = args]

\* The operation returns the pair (result, error).
Returned(rec, result, error) ==
    [rec EXCEPT !.pc = "done", !.result = result, !.error = error]

\* The operation ends with an exception.
Raised(rec, name) == [rec EXCEPT !.pc = "raised", !.exc = name]

\* The operation suspends in fetch with the request it built.
Suspended(rec, pc, req) ==
    [rec EXCEPT !.pc = pc, !.req = req, !.fetches = @ + 1]

\* ------------------------------------------------------------------- Huobi

\* The access key and the host the adapters are constructed with.
AccessKey == Str("access")
HuobiHost == "api.huobi.pro"

\* The four parameters request adds to the mapping before it signs.
HuobiAuthParams(timestamp) ==
    <<KV("AccessKeyId", AccessKey), KV("SignatureMethod", Str("HmacSHA256")),
      KV("SignatureVersion", Str("2")), KV("Timestamp", timestamp)>>

\* A payload that lists the parameters in the order of the mapping.
HuobiPayloadUnsorted(method, params, host_url, request_path) ==
    [method |-> method, host |-> host_url, path |-> request_path,
     query |-> [i \in 1..Len(params) |-> KV(params[i].k, Quote(params[i].v))]]

\* generate_signature's payload: method, host and path, and the parameters
\* in the order of their keys, each value quoted.
HuobiPayload(method, params, host_url, request_path) ==
    LET sorted == SortByKey(params)
    IN  [method |-> method, host |-> host_url, path |-> request_path,
         query |-> [i \in 1..Len(sorted) |->
                        KV(sorted[i].k, Quote(sorted[i].v))]]

\* A signature that also covers the account id the adapter has cached.
HuobiSignatureCached(key, method, params, host_url, request_path) ==
    B64Encode(Hmac(key, [payload |-> HuobiPayload(method, params, host_url,
                                                   request_path),
                         cached |-> account_id]))

\* generate_signature: the base64 of the keyed digest of the payload.
HuobiSignature(key, method, params, host_url, request_path) ==
    B64Encode(Hmac(key, HuobiPayload(method, params, host_url, request_path)))

\* The request HuobiRestAPI.request hands to fetch.  With auth=True the
\* timestamp is read, `params if params else {}` keeps the mapping the
\* operation handed in when it is not empty (a new one is made otherwise),
\* and the four parameters and then the signature are stored in it.
HuobiBuilt(method, uri, params, body, auth, key) ==
    LET timestamp == UtcSeconds(clock)
        updated   == Update(params, HuobiAuthParams(timestamp))
        signature == HuobiSignature(key, method, updated, HuobiHost, uri)
        sent      == SetItem(updated, KV("Signature", signature))
    IN  IF auth
        THEN [method |-> method, uri |-> uri, params |-> sent, body |-> body,
              headers |-> <<>>, auth |-> TRUE, key |-> key,
              built |-> Objects(params, body), own |-> params # <<>>]
        ELSE [NoReq EXCEPT !.method = method, !.uri = uri, !.params = params,
                           !.body = body, !.built = Objects(params, body)]

\* A request that skips the signature when there is no key and sends anyway.
HuobiRequestUnsigned(rec, pc, method, uri, params, body, auth) ==
    Suspended(rec, pc,
              HuobiBuilt(method, uri, params, body, auth, secret_key["huobi"]))

\* HuobiRestAPI.request up to its fetch: with auth=True the parameters are
\* signed with the secret key, and generate_signature's
\* `self._secret_key.encode(...)` raises AttributeError when the key is None.
HuobiRequest(rec, pc, method, uri, params, body, auth) ==
    IF auth /\ secret_key["huobi"] = None
    THEN Raised([rec EXCEPT !.req.auth = auth], "AttributeError")
    ELSE Suspended(rec, pc,
                   HuobiBuilt(method, uri, params, body, auth,
                              secret_key["huobi"]))

\* A request that rejects only a body whose status says "error": a body
\* without a status field passes as a success.
HuobiResponseLenient(resp) ==
    IF Truthy(resp.error)
    THEN [result |-> resp.success, error |-> resp.error]
    ELSE LET success == IF resp.success.kind # "dict"
                        THEN JsonLoads(resp.success)
                        ELSE resp.success
         IN  IF success.status = "error"
             THEN [result |-> NoneV, error |-> success]
             ELSE [result |-> success, error |-> NoneV]

\* HuobiRestAPI.request after its fetch: the pair it returns for the outcome.
HuobiResponse(resp) ==
    IF Truthy(resp.error)
    THEN [result |-> resp.success, error |-> resp.error]
    ELSE LET success == IF resp.success.kind # "dict"
                        THEN JsonLoads(resp.success)
                        ELSE resp.success
         IN  IF success.status # "ok"
             THEN [result |-> NoneV, error |-> success]
             ELSE [result |-> success, error |-> NoneV]

\* The loop of _get_account_id: the id of the first account of type spot.
RECURSIVE FirstSpot(_)
FirstSpot(data) ==
    IF data = <<>> THEN None
    ELSE IF Head(data).type = "spot" THEN Head(data).id
    ELSE FirstSpot(Tail(data))

\* How the account list request ended, from the pair get_user_accounts gave.
LookupEnded(out) ==
    IF out.error = NoneV THEN "ok"
    ELSE IF out.error = TransportError THEN "transport error"
    ELSE "rejected"

\* A _get_account_id that takes the first account of the list, whatever its
\* type.
ResolvedIdAnyType(out) ==
    IF Truthy(out.error) \/ out.result.data = <<>> THEN None
    ELSE Head(out.result.data).id

\* What _get_account_id returns for the pair get_user_accounts gave it.
ResolvedId(out) ==
    IF Truthy(out.error) THEN None ELSE FirstSpot(out.result.data)

\* An operation without arguments that matter: one request, one return.
HuobiCall(t, op, args, method, uri, params, body, auth) ==
    /\ CanCall(t)
    /\ Alone(t)
    /\ task' = [task EXCEPT ![t] =
                    HuobiRequest(Started("huobi", op, args), "sending",
                                 method, uri, params, body, auth)]
    /\ UNCHANGED <<secret_key, account_id, exchange_accounts, clock>>

HuobiGetServerTime(t) ==
    HuobiCall(t, "get_server_time", NoArgs, "GET",
              <<"/v1/common/timestamp">>, <<>>, NoneV, FALSE)

HuobiGetExchangeInfo(t) ==
    HuobiCall(t, "get_exchange_info", NoArgs, "GET",
              <<"/v1/common/symbols">>, <<>>, NoneV, FALSE)

HuobiGetOrderbook(t) ==
    HuobiCall(t, "get_orderbook", NoArgs, "GET", <<"/market/depth">>,
              <<KV("symbol", Str("ethusdt")), KV("depth", Str("20")),
                KV("type", Str("step0"))>>, NoneV, FALSE)

HuobiGetTrade(t) ==
    HuobiCall(t, "get_trade", NoArgs, "GET", <<"/market/trade">>,
              <<KV("symbol", Str("ethusdt"))>>, NoneV, FALSE)

HuobiGetKline(t) ==
    HuobiCall(t, "get_kline", NoArgs, "GET", <<"/market/history/kline">>,
              <<KV("symbol", Str("ethusdt")), KV("period", Str("1min")),
                KV("size", Str("150"))>>, NoneV, FALSE)

HuobiGetUserAccounts(t) ==
    HuobiCall(t, "get_user_accounts", NoArgs, "GET",
              <<"/v1/account/accounts">>, <<>>, NoneV, TRUE)

HuobiGetBalanceAll(t) ==
    HuobiCall(t, "get_balance_all", NoArgs, "GET",
              <<"/v1/subuser/aggregate-balance">>, <<>>, NoneV, TRUE)

HuobiRevokeOrder(t) ==
    /\ CanCall(t)
    /\ Alone(t)
    /\ \E order_id \in {"o1"} :
        HuobiCall(t, "revoke_order", [NoArgs EXCEPT !.order_id = order_id],
                  "POST", <<"/v1/order/orders/", order_id, "/submitcancel">>,
                  <<>>, NoneV, TRUE)

HuobiRevokeOrders(t) ==
    /\ CanCall(t)
    /\ Alone(t)
    /\ \E order_ids \in {<<"o1", "o2">>} :
        HuobiCall(t, "revoke_orders", [NoArgs EXCEPT !.order_ids = order_ids],
                  "POST", <<"/v1/order/orders/batchcancel">>, <<>>,
                  Dict(<<KV("order-ids", List(order_ids))>>), TRUE)

HuobiGetOrderStatus(t) ==
    /\ CanCall(t)
    /\ Alone(t)
    /\ \E order_id \in {"o1"} :
        HuobiCall(t, "get_order_status", [NoArgs EXCEPT !.order_id = order_id],
                  "GET", <<"/v1/order/orders/", order_id>>, <<>>, NoneV, TRUE)

\* The request such an operation builds once _get_account_id has returned
\* `id` (None when the resolution failed: str.format writes it as "None").
HuobiIdRequest(op, args, id) ==
    CASE op = "get_account_balance" ->
           [method |-> "GET",
            uri |-> <<"/v1/account/accounts/", id, "/balance">>,
            params |-> <<>>, body |-> NoneV]
      [] op = "create_order" ->
           [method |-> "POST", uri |-> <<"/v1/order/orders/place">>,
            params |-> <<>>,
            body |-> Dict(<<KV("account-id", Val(id)), KV("price", Str("9000")),
                            KV("amount", Str("0.01")), KV("source", Str("api")),
                            KV("symbol", Str("ethusdt")),
                            KV("type", Str(args.order_type))>>
                          \o (IF args.client_oid # None
                              THEN <<KV("client-order-id", Str(args.client_oid))>>
                              ELSE <<>>))]
      [] op = "get_open_orders" ->
           [method |-> "GET", uri |-> <<"/v1/order/openOrders">>,
            params |-> <<KV("account-id", Val(id)),
                         KV("symbol", Str("ethusdt")), KV("size", Str("500"))>>,
            body |-> NoneV]

\* An own request that is stamped with the timestamp read before the account
\* list request was awaited, where there was one.
HuobiSendWithIdStale(rec, id) ==
    LET r         == HuobiIdRequest(rec.op, rec.args, id)
        timestamp == IF rec.pc = "resolving"
                     THEN Field(rec.req.params, "Timestamp")
                     ELSE UtcSeconds(clock)
        updated   == Update(r.params, HuobiAuthParams(timestamp))
        signature == HuobiSignature(secret_key["huobi"], r.method, updated,
                                    HuobiHost, r.uri)
        fresh     == HuobiRequest([rec EXCEPT !.account_id = id], "sending",
                                  r.method, r.uri, r.params, r.body, TRUE)
    IN  IF fresh.pc = "sending"
        THEN [fresh EXCEPT !.req.params =
                               SetItem(updated, KV("Signature", signature))]
        ELSE fresh

\* An own request that is not sent when _get_account_id gave no id: the
\* operation returns an error instead.
HuobiSendWithIdOrRefuse(rec, id) ==
    LET r == HuobiIdRequest(rec.op, rec.args, id)
    IN  IF id = None
        THEN Returned([rec EXCEPT !.account_id = id], NoneV,
                      Str("account id error!"))
        ELSE HuobiRequest([rec EXCEPT !.account_id = id], "sending",
                          r.method, r.uri, r.params, r.body, TRUE)

\* The operation's own request, sent with the account id it was given.
HuobiSendWithId(rec, id) ==
    LET r == HuobiIdRequest(rec.op, rec.args, id)
    IN  HuobiRequest([rec EXCEPT !.account_id = id], "sending",
                     r.method, r.uri, r.params, r.body, TRUE)

\* A start that asks for the account list whether the id is cached or not.
HuobiCallWithIdAlways(t, op, args) ==
    /\ CanCall(t)
    /\ Among(t)
    /\ task' = [task EXCEPT ![t] =
           HuobiRequest([Started("huobi", op, args) EXCEPT !.lookups = 1],
                        "resolving", "GET", <<"/v1/account/accounts">>,
                        <<>>, NoneV, TRUE)]
    /\ UNCHANGED <<secret_key, account_id, exchange_accounts, clock>>

\* The start of an operation that needs the account id: _get_account_id
\* returns the cached id when it is set, and otherwise awaits
\* get_user_accounts, whose request is the operation's first fetch.
HuobiCallWithId(t, op, args) ==
    /\ CanCall(t)
    /\ Among(t)
    /\ task' = [task EXCEPT ![t] =
           IF account_id # None
           THEN HuobiSendWithId(Started("huobi", op, args), account_id)
           ELSE HuobiRequest([Started("huobi", op, args) EXCEPT !.lookups = 1],
                             "resolving", "GET", <<"/v1/account/accounts">>,
                             <<>>, NoneV, TRUE)]
    /\ UNCHANGED <<secret_key, account_id, exchange_accounts, clock>>

HuobiGetAccountBalance(t) ==
    HuobiCallWithId(t, "get_account_balance", NoArgs)

HuobiCreateOrder(t) ==
    /\ CanCall(t)
    /\ \E order_type \in {"buy-limit"}, client_order_id \in {None, "c1"} :
        HuobiCallWithId(t, "create_order",
                        [NoArgs EXCEPT !.order_type = order_type,
                                       !.client_oid = client_order_id])

HuobiGetOpenOrders(t) ==
    HuobiCallWithId(t, "get_open_orders", NoArgs)

\* A _get_account_id that stores whatever the resolution gave, None included.
HuobiGetAccountIdClears(t) ==
    /\ Quiet
    /\ task[t].pc = "resolving"
    /\ \E resp \in FetchOutcomes("huobi", task[t].req.uri) :
          LET out == HuobiResponse(resp)
              id  == ResolvedId(out)
          IN  /\ account_id' = id
              /\ task' = [task EXCEPT ![t] =
                     HuobiSendWithId([task[t] EXCEPT
                                        !.lookup = LookupEnded(out),
                                        !.lookup_timestamp =
                                            Field(task[t].req.params,
                                                  "Timestamp")],
                                     id)]
    /\ UNCHANGED <<secret_key, exchange_accounts, clock>>

\* A _get_account_id that returns the id it found without caching it.
HuobiGetAccountIdForgets(t) ==
    /\ Quiet
    /\ task[t].pc = "resolving"
    /\ \E resp \in FetchOutcomes("huobi", task[t].req.uri) :
          LET out == HuobiResponse(resp)
              id  == ResolvedId(out)
          IN  /\ account_id' = account_id
              /\ task' = [task EXCEPT ![t] =
                     HuobiSendWithId([task[t] EXCEPT
                                        !.lookup = LookupEnded(out),
                                        !.lookup_timestamp =
                                            Field(task[t].req.params,
                                                  "Timestamp")],
                                     id)]
    /\ UNCHANGED <<secret_key, exchange_accounts, clock>>

\* _get_account_id resumes with the outcome of get_user_accounts: it caches
\* the id of the first spot account, if the call gave one, and returns it or
\* None; the operation then builds and sends its own request.
HuobiGetAccountId(t) ==
    /\ Quiet
    /\ task[t].pc = "resolving"
    /\ \E resp \in FetchOutcomes("huobi", task[t].req.uri) :
          LET out == HuobiResponse(resp)
              id  == ResolvedId(out)
          IN  /\ account_id' = IF id # None THEN id ELSE account_id
              /\ task' = [task EXCEPT ![t] =
                     HuobiSendWithId([task[t] EXCEPT
                                        !.lookup = LookupEnded(out),
                                        !.lookup_timestamp =
                                            Field(task[t].req.params,
                                                  "Timestamp")],
                                     id)]
    /\ UNCHANGED <<secret_key, exchange_accounts, clock>>

\* The fetch of an operation's own request completes and the operation
\* returns what request returns.
HuobiFetched(t) ==
    /\ Quiet
    /\ task[t].pc = "sending"
    /\ task[t].ex = "huobi"
    /\ \E resp \in FetchOutcomes("huobi", task[t].req.uri) :
          LET out == HuobiResponse(resp)
          IN  task' = [task EXCEPT ![t] =
                 Returned([task[t] EXCEPT !.resp = resp], out.result, out.error)]
    /\ UNCHANGED <<secret_key, account_id, exchange_accounts, clock>>

\* The mappings a caller of request hands in: the same two entries in both
\* insertion orders.
ParamOrders(k1, v1, k2, v2) ==
    { <<KV(k1, Str(v1)), KV(k2, Str(v2))>>,
      <<KV(k2, Str(v2)), KV(k1, Str(v1))>> }

\* A caller calls HuobiRestAPI.request itself, with a mapping of its own.
HuobiRequestDirect(t) ==
    /\ CanCall(t)
    /\ \E params \in ParamOrders("symbol", "ethusdt", "size", "500") :
          task' = [task EXCEPT ![t] =
              HuobiRequest(Started("huobi", "request", NoArgs), "sending",
                           "GET", <<"/v1/order/openOrders">>, params, NoneV,
                           TRUE)]
    /\ UNCHANGED <<secret_key, account_id, exchange_accounts, clock>>

\* ----------------------------------------------------------------- Binance

\* tools.get_cur_timestamp_ms() as the operations place it in the request.
BinanceTimestamp == KV("timestamp", TimestampMs(clock))

\* "&".join(["=".join([str(k), str(v)]) for k, v in data.items()]): the
\* entries of the merged dict in its own order, each value as str writes it.
BinanceQuery(data) == [i \in 1..Len(data) |-> KV(data[i].k, StrOf(data[i].v))]

\* The signature of a query: the hex digest of its keyed digest.
BinanceSignature(key, query) == HexDigest(Hmac(key, query))

\* The request BinanceRestAPI.request hands to fetch: params and body are
\* merged into a new dict whose query goes into the url, followed by its
\* signature when auth=True and the query is not empty; no body is sent.
BinanceBuilt(method, uri, params, body, auth, key) ==
    LET data  == Update(Update(<<>>, params), body)
        query == BinanceQuery(data)
        signs == auth /\ data # <<>>
    IN  [method |-> method, uri |-> uri,
         params |-> IF signs
                    THEN Append(query,
                                KV("signature", BinanceSignature(key, query)))
                    ELSE query,
         body |-> NoneV, headers |-> <<>>, auth |-> auth,
         key |-> IF signs THEN key ELSE None,
         built |-> Objects(params, Dict(body)), own |-> FALSE]

\* BinanceRestAPI.request up to its fetch: with auth=True and a non-empty
\* query the query is signed, where `self._secret_key.encode()` raises
\* AttributeError when the key is None.
BinanceRequest(rec, method, uri, params, body, auth) ==
    IF auth /\ Update(Update(<<>>, params), body) # <<>>
            /\ secret_key["binance"] = None
    THEN Raised([rec EXCEPT !.req.auth = auth], "AttributeError")
    ELSE Suspended(rec, "sending",
                   BinanceBuilt(method, uri, params, body, auth,
                                secret_key["binance"]))

BinanceCall(t, op, args, method, uri, params, body, auth) ==
    /\ CanCall(t)
    /\ Alone(t)
    /\ task' = [task EXCEPT ![t] =
                    BinanceRequest(Started("binance", op, args),
                                   method, uri, params, body, auth)]
    /\ UNCHANGED <<secret_key, account_id, exchange_accounts, clock>>

BinancePing(t) ==
    BinanceCall(t, "ping", NoArgs, "GET", <<"/api/v3/ping">>, <<>>, <<>>, FALSE)

BinanceGetServerTime(t) ==
    BinanceCall(t, "get_server_time", NoArgs, "GET", <<"/api/v3/time">>,
                <<>>, <<>>, FALSE)

BinanceGetExchangeInfo(t) ==
    BinanceCall(t, "get_exchange_info", NoArgs, "GET",
                <<"/api/v3/exchangeInfo">>, <<>>, <<>>, FALSE)

BinanceGetOrderbook(t) ==
    BinanceCall(t, "get_orderbook", NoArgs, "GET", <<"/api/v3/depth">>,
                <<KV("symbol", Str("BTCUSDT")), KV("limit", Str("10"))>>,
                <<>>, FALSE)

BinanceGetTrade(t) ==
    BinanceCall(t, "get_trade", NoArgs, "GET", <<"/api/v3/trades">>,
                <<KV("symbol", Str("BTCUSDT")), KV("limit", Str("500"))>>,
                <<>>, FALSE)

BinanceGetKline(t) ==
    /\ CanCall(t)
    /\ Alone(t)
    /\ \E start \in {None, "t1"}, end \in {None, "t2"} :
        BinanceCall(t, "get_kline",
                    [NoArgs EXCEPT !.start = start, !.end = end],
                    "GET", <<"/api/v3/klines">>,
                    <<KV("symbol", Str("BTCUSDT")), KV("interval", Str("1m")),
                      KV("limit", Str("500"))>>
                    \o (IF start # None /\ end # None
                        THEN <<KV("startTime", Str(start)),
                               KV("endTime", Str(end))>>
                        ELSE <<>>),
                    <<>>, FALSE)

BinanceGetAveragePrice(t) ==
    BinanceCall(t, "get_average_price", NoArgs, "GET", <<"/api/v3/avgPrice">>,
                <<KV("symbol", Str("BTCUSDT"))>>, <<>>, FALSE)

BinanceGetUserAccount(t) ==
    BinanceCall(t, "get_user_account", NoArgs, "GET", <<"/api/v3/account">>,
                <<BinanceTimestamp>>, <<>>, TRUE)

BinanceCreateOrder(t) ==
    /\ CanCall(t)
    /\ Alone(t)
    /\ \E action \in {"BUY", "SELL"}, client_order_id \in {None, "c1"} :
        BinanceCall(t, "create_order",
                    [NoArgs EXCEPT !.action = action,
                                   !.client_oid = client_order_id],
                    "POST", <<"/api/v3/order">>, <<>>,
                    <<KV("symbol", Str("BTCUSDT")), KV("side", Str(action)),
                      KV("type", Str("LIMIT")), KV("timeInForce", Str("GTC")),
                      KV("quantity", Str("0.01")), KV("price", Str("9000")),
                      KV("recvWindow", Str("5000")),
                      KV("newOrderRespType", Str("FULL")), BinanceTimestamp>>
                    \o (IF client_order_id # None
                        THEN <<KV("newClientOrderId", Str(client_order_id))>>
                        ELSE <<>>),
                    TRUE)

BinanceRevokeOrder(t) ==
    /\ CanCall(t)
    /\ Alone(t)
    /\ \E order_id \in {"o1"}, client_order_id \in {None, "c1"} :
        BinanceCall(t, "revoke_order",
                    [NoArgs EXCEPT !.order_id = order_id,
                                   !.client_oid = client_order_id],
                    "DELETE", <<"/api/v3/order">>,
                    <<KV("symbol", Str("BTCUSDT")), KV("orderId", Str(order_id)),
                      BinanceTimestamp>>
                    \o (IF client_order_id # None
                        THEN <<KV("origClientOrderId", Str(client_order_id))>>
                        ELSE <<>>),
                    <<>>, TRUE)

BinanceGetOrderStatus(t) ==
    /\ CanCall(t)
    /\ Alone(t)
    /\ \E order_id \in {"o1"}, client_order_id \in {None, "c1"} :
        BinanceCall(t, "get_order_status",
                    [NoArgs EXCEPT !.order_id = order_id,
                                   !.client_oid = client_order_id],
                    "GET", <<"/api/v3/order">>,
                    <<KV("symbol", Str("BTCUSDT")), KV("orderId", Str(order_id)),
                      KV("origClientOrderId", Val(client_order_id)),
                      BinanceTimestamp>>,
                    <<>>, TRUE)

BinanceGetAllOrders(t) ==
    BinanceCall(t, "get_all_orders", NoArgs, "GET", <<"/api/v3/allOrders">>,
                <<KV("symbol", Str("BTCUSDT")), BinanceTimestamp>>, <<>>, TRUE)

BinanceGetOpenOrders(t) ==
    BinanceCall(t, "get_open_orders", NoArgs, "GET", <<"/api/v3/openOrders">>,
                <<KV("symbol", Str("BTCUSDT")), BinanceTimestamp>>, <<>>, TRUE)

BinanceGetListenKey(t) ==
    BinanceCall(t, "get_listen_key", NoArgs, "POST",
                <<"/api/v3/userDataStream">>, <<>>, <<>>, FALSE)

BinancePutListenKey(t) ==
    BinanceCall(t, "put_listen_key", NoArgs, "PUT",
                <<"/api/v3/userDataStream">>,
                <<KV("listenKey", Str("lk"))>>, <<>>, FALSE)

BinanceDeleteListenKey(t) ==
    BinanceCall(t, "delete_listen_key", NoArgs, "DELETE",
                <<"/api/v3/userDataStream">>,
                <<KV("listenKey", Str("lk"))>>, <<>>, FALSE)

\* A caller calls BinanceRestAPI.request itself: the same two entries, both
\* in params in either order, or one in params and the other in body.
BinanceRequestDirect(t) ==
    /\ CanCall(t)
    /\ \E params \in ParamOrders("symbol", "BTCUSDT", "limit", "10"),
          split \in BOOLEAN :
          task' = [task EXCEPT ![t] =
              BinanceRequest(Started("binance", "request", NoArgs), "GET",
                             <<"/api/v3/openOrders">>,
                             IF split THEN <<params[1]>> ELSE params,
                             IF split THEN <<params[2]>> ELSE <<>>, TRUE)]
    /\ UNCHANGED <<secret_key, account_id, exchange_accounts, clock>>

\* BinanceRestAPI.request after its fetch: it returns fetch's pair as it is.
BinanceResponse(resp) == [result |-> resp.success, error |-> resp.error]

\* The fetch completes and the operation returns what request returns.
BinanceFetched(t) ==
    /\ Quiet
    /\ task[t].pc = "sending"
    /\ task[t].ex = "binance"
    /\ \E resp \in FetchOutcomes("binance", task[t].req.uri) :
          LET out == BinanceResponse(resp)
          IN  task' = [task EXCEPT ![t] =
                 Returned([task[t] EXCEPT !.resp = resp], out.result, out.error)]
    /\ UNCHANGED <<secret_key, account_id, exchange_accounts, clock>>

\* -------------------------------------------------------------------- OKEx

\* OKExRestAPI.request up to its fetch, or with auth=True up to the second of
\* its two clock readings: the sorted parameters go into the url, and the
\* first time.time() is read.
OkexRequest(rec, method, uri, params, body, auth) ==
    LET req == [NoReq EXCEPT !.method = method, !.uri = uri,
                             !.params = SortByKey(params), !.body = body,
                             !.auth = auth,
                             !.built = Objects(params, body)]
    IN  IF auth
        THEN [rec EXCEPT !.pc = "stamping", !.now = clock, !.req = req]
        ELSE Suspended(rec, "sending", req)

\* The message OKEx signs: the timestamp, the method in upper case, the
\* path with its query and the serialised body.
OkexMessage(timestamp, method, uri, query, body) ==
    [timestamp |-> timestamp, method |-> method, uri |-> uri,
     query |-> query, body |-> body]

\* The OK-ACCESS-SIGN header: the base64 of the keyed digest of the message.
OkexSignature(key, message) == B64Encode(Hmac(key, message))

\* The headers of an authenticated request that carry the signature and
\* the timestamp.
OkexHeaders(timestamp, sign) ==
    <<KV("OK-ACCESS-SIGN", sign), KV("OK-ACCESS-TIMESTAMP", timestamp)>>

\* The request OKExRestAPI.request hands to fetch with auth=True, the first
\* time.time() having read `now1` and the second `now2`: the body is
\* serialised into a new string (or replaced by ""), the message is signed,
\* and timestamp and signature go into the headers.
OkexBuilt(req, key, now1, now2) ==
    LET timestamp == OkexTimestamp(now1, now2)
        body      == IF Truthy(req.body) THEN JsonDumps(req.body) ELSE Str("")
        message   == OkexMessage(timestamp, req.method, req.uri, req.params,
                                 body)
    IN  [req EXCEPT !.body = body, !.key = key,
                    !.headers = OkexHeaders(timestamp,
                                            OkexSignature(key, message))]

\* OKExRestAPI.request from its second clock reading to its fetch;
\* `bytes(self._secret_key, ...)` raises TypeError when the key is None.
OkexStamped(t) ==
    /\ task[t].pc = "stamping"
    /\ task' = [task EXCEPT ![t] =
           IF secret_key["okex"] = None
           THEN Raised(task[t], "TypeError")
           ELSE Suspended(task[t], "sending",
                          OkexBuilt(task[t].req, secret_key["okex"],
                                    task[t].now, clock))]
    /\ UNCHANGED <<secret_key, account_id, exchange_accounts, clock>>

\* An operation that sends one request whatever its arguments.
OkexCall(t, op, args, method, uri, params, body, auth) ==
    /\ CanCall(t)
    /\ Alone(t)
    /\ task' = [task EXCEPT ![t] =
                    OkexRequest(Started("okex", op, args),
                                method, uri, params, body, auth)]
    /\ UNCHANGED <<secret_key, account_id, exchange_accounts, clock>>

\* An operation that raises on arguments it cannot use.
OkexRefuseRaises(t, op, args, message) ==
    /\ CanCall(t)
    /\ Alone(t)
    /\ task' = [task EXCEPT ![t] =
                    Raised(Started("okex", op, args), "ValueError")]
    /\ UNCHANGED <<secret_key, account_id, exchange_accounts, clock>>

\* An operation that returns (None, <message>) before any request.
OkexRefuse(t, op, args, message) ==
    /\ CanCall(t)
    /\ Alone(t)
    /\ task' = [task EXCEPT ![t] =
                    Returned(Started("okex", op, args), NoneV, Str(message))]
    /\ UNCHANGED <<secret_key, account_id, exchange_accounts, clock>>

OkexGetOrderbook(t) ==
    /\ CanCall(t)
    /\ Alone(t)
    /\ \E depth \in {None, "0.1"} :
        OkexCall(t, "get_orderbook", [NoArgs EXCEPT !.depth = depth], "GET",
                 <<"/api/spot/v3/instruments/", "BTC-USDT", "/book">>,
                 <<KV("size", Str("10"))>>
                 \o (IF depth # None THEN <<KV("depth", Str(depth))>> ELSE <<>>),
                 NoneV, FALSE)

OkexGetTrade(t) ==
    OkexCall(t, "get_trade", NoArgs, "GET",
             <<"/api/spot/v3/instruments/", "BTC-USDT", "/trades">>,
             <<KV("limit", Str("10"))>>, NoneV, FALSE)

OkexGetKline(t) ==
    /\ CanCall(t)
    /\ Alone(t)
    /\ \E start \in {None, "t1"}, end \in {None, "t2"} :
        OkexCall(t, "get_kline", [NoArgs EXCEPT !.start = start, !.end = end],
                 "GET", <<"/api/spot/v3/instruments/", "BTC-USDT", "/candles">>,
                 <<KV("granularity", Str("60"))>>
                 \o (IF start # None /\ end # None
                     THEN <<KV("start", Str(start)), KV("end", Str(end))>>
                     ELSE <<>>),
                 NoneV, FALSE)

OkexGetUserAccount(t) ==
    OkexCall(t, "get_user_account", NoArgs, "GET",
             <<"/api/spot/v3/accounts">>, <<>>, NoneV, TRUE)

\* A body that gives the quantity of every market order under `size`.
OkexOrderDataSized(action, order_type, client_oid) ==
    <<KV("side", Str(IF action = "BUY" THEN "buy" ELSE "sell")),
      KV("instrument_id", Str("BTC-USDT")), KV("margin_trading", Str("1"))>>
    \o (IF order_type = "LIMIT"
        THEN <<KV("type", Str("limit")), KV("price", Str("9000")),
               KV("size", Str("0.01"))>>
        ELSE <<KV("type", Str("market")), KV("size", Str("0.01"))>>)
    \o (IF client_oid # None THEN <<KV("client_oid", Str(client_oid))>>
        ELSE <<>>)

\* The body create_order builds for the order types it knows.
OkexOrderData(action, order_type, client_oid) ==
    <<KV("side", Str(IF action = "BUY" THEN "buy" ELSE "sell")),
      KV("instrument_id", Str("BTC-USDT")), KV("margin_trading", Str("1"))>>
    \o (IF order_type = "LIMIT"
        THEN <<KV("type", Str("limit")), KV("price", Str("9000")),
               KV("size", Str("0.01"))>>
        ELSE <<KV("type", Str("market")),
               IF action = "BUY" THEN KV("notional", Str("0.01"))
                                 ELSE KV("size", Str("0.01"))>>)
    \o (IF client_oid # None THEN <<KV("client_oid", Str(client_oid))>>
        ELSE <<>>)

OkexCreateOrder(t) ==
    /\ CanCall(t)
    /\ Alone(t)
    /\ \E action \in {"BUY", "SELL"}, order_type \in {"LIMIT", "MARKET", "IOC"},
       client_oid \in {None, "c1"} :
        LET args == [NoArgs EXCEPT !.action = action, !.order_type = order_type,
                                   !.client_oid = client_oid]
        IN  IF order_type \in {"LIMIT", "MARKET"}
            THEN OkexCall(t, "create_order", args, "POST",
                          <<"/api/spot/v3/orders">>, <<>>,
                          Dict(OkexOrderData(action, order_type, client_oid)),
                          TRUE)
            ELSE OkexRefuse(t, "create_order", args, "order type error!")

\* A path that prefers client_oid.
OkexPathIdClientFirst(order_id, client_oid) ==
    IF client_oid # None THEN client_oid
    ELSE IF order_id # None THEN order_id
    ELSE None

\* The id revoke_order and get_order_status put in the path: order_id when
\* it is given, else client_oid, else none (None).
OkexPathId(order_id, client_oid) ==
    IF order_id # None THEN order_id
    ELSE IF client_oid # None THEN client_oid
    ELSE None

OkexRevokeOrder(t) ==
    /\ CanCall(t)
    /\ Alone(t)
    /\ \E order_id \in {None, "o1"}, client_oid \in {None, "c1"} :
        LET args == [NoArgs EXCEPT !.order_id = order_id,
                                   !.client_oid = client_oid]
            id   == OkexPathId(order_id, client_oid)
        IN  IF id # None
            THEN OkexCall(t, "revoke_order", args, "POST",
                          <<"/api/spot/v3/cancel_orders/", id>>, <<>>,
                          Dict(<<KV("instrument_id", Str("BTC-USDT"))>>), TRUE)
            ELSE OkexRefuse(t, "revoke_order", args, "order id error!")

\* An id list of n ids, none of them in ascending order of position.
Ids(n) == [i \in 1..n |-> n + 1 - i]
\* The argument pairs of revoke_orders: one list, the other, both or none.
IdListArgs ==
    {<<Ids(n), <<>>>> : n \in 0..MaxIds}
    \cup {<<<<>>, Ids(n)>> : n \in 1..MaxIds}
    \cup {<<Ids(2), Ids(3)>>}

\* A body that carries the whole list.
OkexBatchBodyWhole(order_ids, client_oids) ==
    IF order_ids # <<>>
    THEN List(<<Dict(<<KV("instrument_id", Str("BTC-USDT")),
                       KV("order_ids", List(order_ids))>>)>>)
    ELSE List(<<Dict(<<KV("instrument_id", Str("BTC-USDT")),
                       KV("client_oids", List(client_oids))>>)>>)

\* The body revoke_orders builds: at most BatchLimit ids of the list used.
OkexBatchBody(order_ids, client_oids) ==
    IF order_ids # <<>>
    THEN List(<<Dict(<<KV("instrument_id", Str("BTC-USDT")),
                       KV("order_ids", List(Take(order_ids, BatchLimit)))>>)>>)
    ELSE List(<<Dict(<<KV("instrument_id", Str("BTC-USDT")),
                       KV("client_oids", List(Take(client_oids, BatchLimit)))>>)>>)

OkexRevokeOrders(t) ==
    /\ CanCall(t)
    /\ Alone(t)
    /\ \E lists \in IdListArgs :
        LET args == [NoArgs EXCEPT !.order_ids = lists[1],
                                   !.client_oids = lists[2]]
        IN  IF lists[1] # <<>> \/ lists[2] # <<>>
            THEN OkexCall(t, "revoke_orders", args, "POST",
                          <<"/api/spot/v3/cancel_batch_orders">>, <<>>,
                          OkexBatchBody(lists[1], lists[2]), TRUE)
            ELSE OkexRefuse(t, "revoke_orders", args, "order id list error!")

OkexGetOpenOrders(t) ==
    OkexCall(t, "get_open_orders", NoArgs, "GET",
             <<"/api/spot/v3/orders_pending">>,
             <<KV("instrument_id", Str("BTC-USDT")), KV("limit", Str("100"))>>,
             NoneV, TRUE)

OkexGetOrderStatus(t) ==
    /\ CanCall(t)
    /\ Alone(t)
    /\ \E order_id \in {None, "o1"}, client_oid \in {None, "c1"} :
        LET args == [NoArgs EXCEPT !.order_id = order_id,
                                   !.client_oid = client_oid]
            id   == OkexPathId(order_id, client_oid)
        IN  IF id # None
            THEN OkexCall(t, "get_order_status", args, "GET",
                          <<"/api/spot/v3/orders/", id>>,
                          <<KV("instrument_id", Str("BTC-USDT"))>>, NoneV, TRUE)
            ELSE OkexRefuse(t, "get_order_status", args, "order id error!")

\* A caller calls OKExRestAPI.request itself, with or without a body.
OkexRequestDirect(t) ==
    /\ CanCall(t)
    /\ \E params \in ParamOrders("instrument_id", "BTC-USDT", "limit", "100"),
          body \in {NoneV, Dict(<<KV("instrument_id", Str("BTC-USDT"))>>)} :
          task' = [task EXCEPT ![t] =
              OkexRequest(Started("okex", "request", NoArgs),
                          IF body = NoneV THEN "GET" ELSE "POST",
                          <<"/api/spot/v3/orders_pending">>, params, body,
                          TRUE)]
    /\ UNCHANGED <<secret_key, account_id, exchange_accounts, clock>>

\* A request that reads the body's `result` field and reports a false one
\* as an error, as Huobi's request does with `status`.
OkexResponseGated(resp) ==
    IF Truthy(resp.error) \/ resp.success.kind # "dict"
       \/ resp.success.result # "false"
    THEN [result |-> resp.success, error |-> resp.error]
    ELSE [result |-> NoneV, error |-> resp.success]

\* OKExRestAPI.request after its fetch: it returns fetch's pair as it is.
OkexResponse(resp) == [result |-> resp.success, error |-> resp.error]

\* What revoke_order does with the pair (result, error) request returned:
\* the order id goes in the result slot, and the body in the error slot
\* unless its `result` field is true.  `result["result"]` raises on a body
\* without that key (KeyError) and on a body that is text (TypeError).
OkexRevokeOrderResult(rec, out) ==
    LET order_id == Val(rec.args.order_id)
    IN  IF Truthy(out.error) THEN Returned(rec, order_id, out.error)
        ELSE IF out.result.kind # "dict" THEN Raised(rec, "TypeError")
        ELSE IF out.result.result = "absent" THEN Raised(rec, "KeyError")
        ELSE IF out.result.result = "true" THEN Returned(rec, order_id, NoneV)
        ELSE Returned(rec, order_id, out.result)

\* The fetch completes: every operation but revoke_order returns what
\* request returns.
OkexFetched(t) ==
    /\ Quiet
    /\ task[t].pc = "sending"
    /\ task[t].ex = "okex"
    /\ \E resp \in FetchOutcomes("okex", task[t].req.uri) :
          LET rec == [task[t] EXCEPT !.resp = resp]
              out == OkexResponse(resp)
          IN  task' = [task EXCEPT ![t] =
                 IF rec.op = "revoke_order"
                 THEN OkexRevokeOrderResult(rec, out)
                 ELSE Returned(rec, out.result, out.error)]
    /\ UNCHANGED <<secret_key, account_id, exchange_accounts, clock>>

\* ----------------------------------------------------------------- callers

\* The caller has the outcome (or the exception) and is free to call again.
Return(t) ==
    /\ Ended(t)
    /\ task' = [task EXCEPT ![t] = Idle]
    /\ UNCHANGED <<secret_key, account_id, exchange_accounts, clock>>

\* A millisecond passes, while no caller is looking at an outcome.
Tick ==
    /\ clock < ClockStart + MaxTicks
    /\ \A t \in Tasks : ~Ended(t)
    /\ clock' = clock + 1
    /\ UNCHANGED <<secret_key, account_id, task, exchange_accounts>>

\* Construction: the adapters have their secret keys or none; the Huobi account
\* id starts unset (HuobiRestAPI.__init__); no caller has called yet.
Constructed ==
    /\ \E key \in {None, SecretKey} : secret_key = [ex \in Exchanges |-> key]
    /\ account_id = None
    /\ task = [t \in Tasks |-> Idle]
    /\ clock = ClockStart

\* Nothing is assumed of the exchange: the accounts of the key may change at
\* any time, so that any list may answer any account list request.
Init ==
    /\ Constructed
    /\ exchange_accounts = AccountLists

\* The accounts of the key do not change while the adapter lives: every
\* account list request that is answered is answered with the same list.
InitSameList ==
    /\ Constructed
    /\ \E l \in AccountLists : exchange_accounts = {l}

HuobiNext(t) ==
    \/ HuobiGetServerTime(t)
    \/ HuobiGetExchangeInfo(t)
    \/ HuobiGetOrderbook(t)
    \/ HuobiGetTrade(t)
    \/ HuobiGetKline(t)
    \/ HuobiGetUserAccounts(t)
    \/ HuobiGetBalanceAll(t)
    \/ HuobiRevokeOrder(t)
    \/ HuobiRevokeOrders(t)
    \/ HuobiGetOrderStatus(t)
    \/ HuobiGetAccountBalance(t)
    \/ HuobiCreateOrder(t)
    \/ HuobiGetOpenOrders(t)
    \/ HuobiGetAccountId(t)
    \/ HuobiFetched(t)

OkexNext(t) ==
    \/ OkexGetOrderbook(t)
    \/ OkexGetTrade(t)
    \/ OkexGetKline(t)
    \/ OkexGetUserAccount(t)
    \/ OkexCreateOrder(t)
    \/ OkexRevokeOrder(t)
    \/ OkexRevokeOrders(t)
    \/ OkexGetOpenOrders(t)
    \/ OkexGetOrderStatus(t)
    \/ OkexStamped(t)
    \/ OkexFetched(t)

BinanceNext(t) ==
    \/ BinancePing(t)
    \/ BinanceGetServerTime(t)
    \/ BinanceGetExchangeInfo(t)
    \/ BinanceGetOrderbook(t)
    \/ BinanceGetTrade(t)
    \/ BinanceGetKline(t)
    \/ BinanceGetAveragePrice(t)
    \/ BinanceGetUserAccount(t)
    \/ BinanceCreateOrder(t)
    \/ BinanceRevokeOrder(t)
    \/ BinanceGetOrderStatus(t)
    \/ BinanceGetAllOrders(t)
    \/ BinanceGetOpenOrders(t)
    \/ BinanceGetListenKey(t)
    \/ BinancePutListenKey(t)
    \/ BinanceDeleteListenKey(t)
    \/ BinanceFetched(t)

Next ==
    \E t \in Tasks :
        BinanceNext(t) \/ HuobiNext(t) \/ OkexNext(t) \/ Return(t)

Spec == Init /\ [][Next]_vars

\* The adapters against an exchange whose account list is stable.
SpecSameList == InitSameList /\ [][Next]_vars

\* The signing path with the clock running: two callers that call request
\* themselves or a Huobi operation that resolves the account id first, in
\* any interleaving, while time passes.  Two callers are what it takes to
\* set one signing run against another.
Signers == {t \in Tasks : t <= 2}

SignNext(t) ==
    \/ HuobiRequestDirect(t)
    \/ BinanceRequestDirect(t)
    \/ BinanceGetUserAccount(t)
    \/ OkexRequestDirect(t)
    \/ HuobiGetOpenOrders(t)
    \/ HuobiGetAccountId(t)
    \/ HuobiFetched(t)
    \/ BinanceFetched(t)
    \/ OkexStamped(t)
    \/ OkexFetched(t)
    \/ Return(t)

NextSign == (\E t \in Signers : SignNext(t)) \/ Tick

SpecSign == Init /\ [][NextSign]_vars

\* ------------------------------------------------------------------ claims

Done(t) == task[t].pc = "done"
\* The operation has made a network call and has its outcome.
Answered(t) == Done(t) /\ task[t].fetches > 0
\* The body of the response the operation's request got, as a JSON object.
BodyOf(t) ==
    IF task[t].resp.success.kind = "text"
    THEN task[t].resp.success.json
    ELSE task[t].resp.success

\* C1: whatever the operation, its arguments and the transport's outcome,
\* the returned pair has exactly one of result and error non-null.
OutcomeExclusive ==
    \A t \in Tasks :
        Done(t) => ((task[t].result = NoneV) # (task[t].error = NoneV))

\* C2: a Huobi request the transport reports no error for returns
\* (body, None) exactly when the body's status is "ok", and (None, body),
\* the whole body in the error slot, for any other or a missing status.
HuobiEnvelopeGate ==
    \A t \in Tasks :
        (Answered(t) /\ task[t].ex = "huobi" /\ task[t].resp.error = NoneV) =>
            /\ (BodyOf(t).status = "ok") <=>
                   (task[t].result = BodyOf(t) /\ task[t].error = NoneV)
            /\ (BodyOf(t).status # "ok") =>
                   (task[t].result = NoneV /\ task[t].error = BodyOf(t))

\* C2's case: a delivered body whose status field is missing came back in
\* the error slot.
HuobiEnvelopeGateWitness ==
    \E t \in Tasks :
        /\ Answered(t) /\ task[t].ex = "huobi"
        /\ task[t].resp.error = NoneV
        /\ BodyOf(t).status = "absent"
        /\ task[t].error = BodyOf(t)

\* C3 as stated: every OKEx and Binance operation returns a delivered
\* response as its result with error None, whatever the body holds.
DeliveredIsSuccess ==
    \A t \in Tasks :
        (Answered(t) /\ task[t].ex \in {"okex", "binance"}
                     /\ task[t].resp.error = NoneV) =>
            (task[t].result = task[t].resp.success /\ task[t].error = NoneV)

\* C3, amended: that holds of every Binance operation and of every OKEx
\* operation but revoke_order, which reads the body's `result` field: it
\* returns the order id as the result, with error None when the field is
\* true and with the whole body as the error when it is false.
DeliveredIsSuccessButRevoke ==
    \A t \in Tasks :
        (Answered(t) /\ task[t].ex \in {"okex", "binance"}
                     /\ task[t].resp.error = NoneV) =>
            IF task[t].ex = "okex" /\ task[t].op = "revoke_order"
            THEN /\ task[t].result = Val(task[t].args.order_id)
                 /\ BodyOf(t).result = "true" => task[t].error = NoneV
                 /\ BodyOf(t).result = "false" =>
                        task[t].error = task[t].resp.success
            ELSE /\ task[t].result = task[t].resp.success
                 /\ task[t].error = NoneV

\* C3's case: an OKEx operation other than revoke_order got a body whose
\* `result` field is false and returned it as its result.
DeliveredIsSuccessWitness ==
    \E t \in Tasks :
        /\ Answered(t) /\ task[t].ex = "okex" /\ task[t].op = "revoke_orders"
        /\ task[t].resp.error = NoneV
        /\ BodyOf(t).result = "false"
        /\ task[t].result = task[t].resp.success
        /\ task[t].error = NoneV


\* The caller starts an operation that calls _get_account_id.
StartsWithId(t) ==
    task[t].pc = "idle" /\ task'[t].pc # "idle" /\ UsesCache(task'[t])
\* The caller's _get_account_id resumes with its account list request's answer.
Resolves(t) == task[t].pc = "resolving" /\ task'[t].pc # "resolving"

\* C4 as stated: once the cached account id is set, no step of any
\* operation, in any interleaving, clears it or changes its value.
AccountIdFrozen == [][account_id # None => account_id' = account_id]_vars

\* C4, amended: once set, the cached id is never cleared; an operation that
\* starts after it was set uses it without an account list request and does
\* not write it; only an operation whose own account list request was in
\* flight when the id was set overwrites it, with the first spot account of
\* its own response.
AccountIdKept ==
    [][account_id # None =>
         /\ account_id' # None
         /\ account_id' # account_id =>
               \E t \in Tasks : /\ Resolves(t)
                                 /\ task[t].lookups = 1
                                 /\ task'[t].account_id = account_id'
         /\ \A t \in Tasks :
               StartsWithId(t) => /\ task'[t].pc = "sending"
                                  /\ task'[t].lookups = 0
                                  /\ task'[t].fetches = 1
                                  /\ task'[t].account_id = account_id
                                  /\ account_id' = account_id]_vars

\* C4's case: with the id cached, one operation has reused it for its own
\* request while another's account list request is still in flight.
AccountIdKeptWitness ==
    /\ account_id # None
    /\ \E t, u \in Tasks :
          /\ task[t].pc = "sending" /\ UsesCache(task[t])
          /\ task[t].lookups = 0 /\ task[t].account_id = account_id
          /\ task[u].pc = "resolving"

\* C5 as stated: once any authenticated Huobi operation has completed
\* successfully, the account id is cached.
CachedAfterAuthenticated ==
    \A t \in Tasks :
        (Answered(t) /\ task[t].ex = "huobi" /\ task[t].req.auth
                     /\ task[t].error = NoneV) => account_id # None

\* C5, amended: the id is unset after construction; it is written only when
\* _get_account_id resumes in get_account_balance, create_order or
\* get_open_orders with an account list that has a spot account, never by an
\* unauthenticated call nor by any other authenticated operation; and the
\* first of those three operations to get such a list leaves the id cached.
ResolvedLazily ==
    /\ account_id = None
    /\ [][/\ account_id' # account_id =>
               \E t \in Tasks : /\ Resolves(t) /\ UsesCache(task[t])
                                 /\ task'[t].lookup = "ok"
                                 /\ task'[t].account_id = account_id'
          /\ \A t \in Tasks :
               (task[t].pc = "idle" /\ task'[t].lookups > 0) =>
                   (UsesCache(task'[t]) /\ account_id = None)
          /\ \A t \in Tasks :
               (Resolves(t) /\ task'[t].account_id # None) =>
                   account_id' = task'[t].account_id]_vars

\* C5's case: the first operation that needed the id has completed and the
\* id its account list gave is the cached one.
ResolvedLazilyWitness ==
    \E t \in Tasks :
        /\ Done(t) /\ UsesCache(task[t]) /\ task[t].lookups = 1
        /\ task[t].account_id # None
        /\ account_id = task[t].account_id

\* The operation has called request with auth=True on an adapter that was
\* constructed without a secret key.
AuthWithoutKey(t) ==
    /\ task[t].pc \notin {"idle", "stamping"}
    /\ task[t].req.auth
    /\ secret_key[task[t].ex] = None

\* C6 as stated: such an operation fails with a ConfigurationError and
\* makes no transport call.
FailsWithConfigurationError ==
    \A t \in Tasks :
        AuthWithoutKey(t) => /\ task[t].pc = "raised"
                             /\ task[t].exc = "ConfigurationError"
                             /\ task[t].fetches = 0

\* C6, amended: such an operation ends with the exception the signing code
\* raises on the None key, AttributeError on Binance and Huobi and TypeError
\* on OKEx, and makes no transport call.
FailsInSigner ==
    \A t \in Tasks :
        AuthWithoutKey(t) =>
            /\ task[t].pc = "raised"
            /\ task[t].exc = IF task[t].ex = "okex" THEN "TypeError"
                              ELSE "AttributeError"
            /\ task[t].fetches = 0

\* C6's case: an authenticated Huobi operation on an adapter without a
\* secret key has raised.
FailsInSignerWitness ==
    \E t \in Tasks :
        /\ AuthWithoutKey(t)
        /\ task[t].ex = "huobi"
        /\ task[t].pc = "raised"

\* C7: a transport error on a network call of an operation is the error of
\* the operation's outcome, and the operation makes no network call after
\* it; the account list request of a Huobi operation is such a call.
TransportErrorSurfaced ==
    \A t \in Tasks :
        /\ (Answered(t) /\ task[t].resp.error = TransportError) =>
               task[t].error = TransportError
        /\ task[t].lookup = "transport error" =>
               (Done(t) /\ task[t].error = TransportError
                        /\ task[t].fetches = 1)

\* The OKEx operation was called without the identifying arguments it needs.
OkexUnusable(rec) ==
    /\ rec.ex = "okex"
    /\ \/ /\ rec.op \in {"revoke_order", "get_order_status"}
          /\ rec.args.order_id = None /\ rec.args.client_oid = None
       \/ /\ rec.op = "revoke_orders"
          /\ rec.args.order_ids = <<>> /\ rec.args.client_oids = <<>>
       \/ /\ rec.op = "create_order"
          /\ rec.args.order_type \notin {"LIMIT", "MARKET"}

\* C8: such an operation returns (None, <a descriptive string>) without
\* raising and without a network call.
UsageErrorReturned ==
    \A t \in Tasks :
        OkexUnusable(task[t]) =>
            /\ Done(t)
            /\ task[t].result = NoneV
            /\ task[t].error.kind = "str" /\ task[t].error.s # ""
            /\ task[t].fetches = 0

\* C8's case: revoke_orders was called with neither list, on an adapter
\* that could not even have signed a request.
UsageErrorReturnedWitness ==
    \E t \in Tasks :
        /\ OkexUnusable(task[t]) /\ task[t].op = "revoke_orders"
        /\ secret_key["okex"] = None
        /\ Done(t)

\* The OKEx operation has built the path of a single-order request.
OkexSingleOrder(t) ==
    /\ task[t].ex = "okex"
    /\ task[t].op \in {"revoke_order", "get_order_status"}
    /\ task[t].fetches > 0

\* C9: the path of revoke_order and get_order_status is built from order_id
\* whenever it is supplied, and from client_oid only when it is not.
OrderIdFirst ==
    \A t \in Tasks :
        OkexSingleOrder(t) =>
            /\ task[t].args.order_id # None =>
                   task[t].req.uri[2] = task[t].args.order_id
            /\ task[t].req.uri[2] = task[t].args.client_oid =>
                   task[t].args.order_id = None

\* C9's case: revoke_order was given both ids and its path has the order id.
OrderIdFirstWitness ==
    \E t \in Tasks :
        /\ OkexSingleOrder(t) /\ task[t].op = "revoke_order"
        /\ task[t].args.order_id # None /\ task[t].args.client_oid # None
        /\ task[t].req.uri[2] = task[t].args.order_id

\* The list revoke_orders works on, and the ids in the body it sent.
BatchGiven(t) ==
    IF task[t].args.order_ids # <<>> THEN task[t].args.order_ids
    ELSE task[t].args.client_oids
BatchEntry(t) == task[t].req.body.of.items[1].items[2]
BatchSent(t) == BatchEntry(t).v.items
\* revoke_orders was called with a list, on an adapter that has its key.
OkexBatch(t) ==
    /\ task[t].ex = "okex" /\ task[t].op = "revoke_orders"
    /\ task[t].pc # "stamping"
    /\ BatchGiven(t) # <<>>
    /\ secret_key["okex"] # None

\* C10: for a list of n ids the body carries exactly the first min(n, 10)
\* of them in their order, under the key of the list used; the request is
\* sent whatever n is, and the outcome is the one the request got.
BatchTruncated ==
    \A t \in Tasks :
        OkexBatch(t) =>
            /\ task[t].pc \in {"sending", "done"}
            /\ task[t].fetches = 1
            /\ BatchEntry(t).k = IF task[t].args.order_ids # <<>>
                                  THEN "order_ids" ELSE "client_oids"
            /\ Len(BatchSent(t)) = IF Len(BatchGiven(t)) < 10
                                    THEN Len(BatchGiven(t)) ELSE 10
            /\ \A i \in 1..Len(BatchSent(t)) : BatchSent(t)[i] = BatchGiven(t)[i]
            /\ Done(t) => /\ task[t].result = task[t].resp.success
                           /\ task[t].error = task[t].resp.error

\* C10's case: a list longer than 10 was given, the request was sent with
\* 10 ids and came back without an error.
BatchTruncatedWitness ==
    \E t \in Tasks :
        /\ OkexBatch(t) /\ Done(t)
        /\ Len(BatchGiven(t)) > 10
        /\ Len(BatchSent(t)) = 10
        /\ task[t].error = NoneV

\* The caller's OKEx create_order has sent its request.
OkexOrderSent(t) ==
    /\ task[t].ex = "okex" /\ task[t].op = "create_order"
    /\ task[t].fetches > 0
\* The dict create_order serialised into the request's body.
OkexOrderBody(t) == task[t].req.body.of.items

\* C11: the body of an OKEx MARKET BUY order has the quantity under
\* `notional` and no `size` or `price`; that of a MARKET SELL order has it
\* under `size` and no `notional` or `price`; that of a LIMIT order has both
\* `price` and `size` and no `notional`.
MarketOrderBody ==
    \A t \in Tasks :
        OkexOrderSent(t) =>
            LET b == OkexOrderBody(t)
                a == task[t].args
            IN  /\ task[t].req.body.kind = "json"
                /\ (a.order_type = "MARKET" /\ a.action = "BUY") =>
                       /\ Field(b, "notional") = Str("0.01")
                       /\ Field(b, "size") = Absent
                       /\ Field(b, "price") = Absent
                /\ (a.order_type = "MARKET" /\ a.action = "SELL") =>
                       /\ Field(b, "size") = Str("0.01")
                       /\ Field(b, "notional") = Absent
                       /\ Field(b, "price") = Absent
                /\ a.order_type = "LIMIT" =>
                       /\ Field(b, "price") = Str("9000")
                       /\ Field(b, "size") = Str("0.01")
                       /\ Field(b, "notional") = Absent

\* C11's case: a MARKET BUY order is in flight with `notional` in its body.
MarketOrderBodyWitness ==
    \E t \in Tasks :
        /\ OkexOrderSent(t)
        /\ task[t].args.order_type = "MARKET" /\ task[t].args.action = "BUY"
        /\ HasKey(OkexOrderBody(t), "notional")

\* The order-lifecycle operations of the three adapters.
Lifecycle == {"create_order", "revoke_order", "revoke_orders",
              "get_order_status", "get_open_orders", "get_all_orders"}
OrderOp(rec) == rec.ex # None /\ rec.op \in Lifecycle
\* The caller's operation returns its pair in this step.
Returns(t) == task[t].pc # "done" /\ task'[t].pc = "done"
\* The messages OKEx operations return for arguments they cannot use.
UsageErrors == {Str("order type error!"), Str("order id error!"),
                Str("order id list error!")}

\* C12 as stated: an order-lifecycle operation that has its outcome from
\* the network issued exactly one request, Huobi create_order and
\* get_open_orders with the account id not yet cached included.
OneRoundTrip ==
    \A t \in Tasks :
        (Answered(t) /\ OrderOp(task[t])) =>
            (task[t].fetches = 1 /\ task[t].lookups = 0)

\* C12, amended: no operation keeps order state, and the only adapter state
\* is the Huobi account id.  An order-lifecycle operation that returns has
\* issued exactly one request, except that an OKEx operation refused for its
\* arguments has issued none, and that Huobi create_order and get_open_orders
\* read the cached id when they start and, when it is unset, issue the
\* account list request first (two requests) and may write the cache when
\* that request is answered.  Nothing else writes the cache.
RoundTripButAccountId ==
    [][/\ \A t \in Tasks :
             (Returns(t) /\ OrderOp(task'[t])) =>
                 IF UsesCache(task'[t])
                 THEN /\ task'[t].lookups \in {0, 1}
                      /\ task'[t].fetches = 1 + task'[t].lookups
                 ELSE /\ task'[t].lookups = 0
                      /\ \/ task'[t].fetches = 1
                         \/ /\ task'[t].fetches = 0
                            /\ task'[t].ex = "okex"
                            /\ task'[t].result = NoneV
                            /\ task'[t].error \in UsageErrors
       /\ \A t \in Tasks :
             (StartsWithId(t) /\ task'[t].pc # "raised") =>
                 /\ (account_id = None) <=> (task'[t].lookups = 1)
                 /\ (account_id # None) =>
                        (task'[t].account_id = account_id /\ task'[t].fetches = 1)
       /\ account_id' # account_id =>
             \E t \in Tasks : Resolves(t) /\ UsesCache(task[t])]_vars

\* C12's case: a Huobi create_order called with the id not cached has
\* returned after two requests, and the id it resolved is now cached.
RoundTripButAccountIdWitness ==
    \E t \in Tasks :
        /\ Answered(t) /\ task[t].ex = "huobi" /\ task[t].op = "create_order"
        /\ task[t].lookups = 1 /\ task[t].fetches = 2
        /\ task[t].account_id # None /\ account_id = task[t].account_id

\* The caller's operation has had its own account list request answered.
Resolved(t) ==
    /\ UsesCache(task[t]) /\ task[t].lookups = 1
    /\ task[t].pc \in {"sending", "done"}

\* C13: against an exchange that answers every account list request with
\* the same list, whatever the number of operations that resolve the id at
\* the same time and however they interleave, the cache is at all times
\* unset or the id of the first spot account of that list, and every
\* operation that resolved the id got that same value.
SameListSameId ==
    \A l \in exchange_accounts :
        /\ account_id \in {None, FirstSpot(l)}
        /\ \A t \in Tasks :
               Resolved(t) => task[t].account_id \in {None, FirstSpot(l)}
        /\ \A t \in Tasks :
               (Resolved(t) /\ task[t].lookup = "ok") =>
                   /\ task[t].account_id = FirstSpot(l)
                   /\ account_id = FirstSpot(l)

\* C13's case: two operations each issued an account list request while the
\* cache was unset, both were answered, and both wrote the same id.
SameListSameIdWitness ==
    \E t, u \in Tasks :
        /\ t # u
        /\ Resolved(t) /\ Resolved(u)
        /\ task[t].lookup = "ok" /\ task[u].lookup = "ok"
        /\ account_id # None
        /\ task[t].account_id = account_id /\ task[u].account_id = account_id

\* The caller's operation has built and signed an authenticated request and
\* handed it to fetch.
SignedRequest(t) ==
    /\ task[t].pc \in {"resolving", "sending", "done"}
    /\ task[t].fetches > 0
    /\ task[t].req.auth
    /\ task[t].req.key # None
\* The operation's mapping and body as they are once request has reached
\* its fetch: the mapping is the one that was sent when request stored its
\* parameters in the operation's own object.
Kept(req) ==
    Objects(IF req.own THEN req.params ELSE req.built.params, req.built.body)

\* C14: after an authenticated request is signed, the query mapping and the
\* body the operation handed to request are as the operation built them:
\* signature, timestamp and credentials go into the request that is sent,
\* not into the operation's objects.
SignerKeepsObjects ==
    \A t \in Tasks :
        SignedRequest(t) => Kept(task[t].req) = task[t].req.built

\* The signature and the timestamp an authenticated request is sent with:
\* query parameters on Huobi and Binance, headers on OKEx.
SentSignature(rec) ==
    CASE rec.ex = "huobi" -> Field(rec.req.params, "Signature")
      [] rec.ex = "binance" -> Field(rec.req.params, "signature")
      [] rec.ex = "okex" -> Field(rec.req.headers, "OK-ACCESS-SIGN")
SentTimestamp(rec) ==
    CASE rec.ex = "huobi" -> Field(rec.req.params, "Timestamp")
      [] rec.ex = "binance" -> Field(rec.req.params, "timestamp")
      [] rec.ex = "okex" -> Field(rec.req.headers, "OK-ACCESS-TIMESTAMP")
\* The message the signature that is sent was computed over.
SignedMessage(rec) == SentSignature(rec).of.message
\* The entries of a mapping, whatever their order.
Entries(items) == {items[i] : i \in 1..Len(items)}
\* The parameters that were signed: all that are sent but the signature.
SignedParams(rec) ==
    SelectSeq(rec.req.params, LAMBDA kv : kv.k \notin {"Signature", "signature"})
\* Caller t has a signed request of adapter ex in flight.
SignedBy(t, ex) == SignedRequest(t) /\ task[t].ex = ex

\* C15: the Binance query lists the merged parameters, params first and then
\* body, in their insertion order, so that two insertion orders of the same
\* entries give different queries; the Huobi payload lists the parameters in
\* the order of their keys, so that with the same method, host, path, secret
\* and entries, the Huobi signature is the same whatever the insertion order.
CanonicalOrdering ==
    /\ \A t \in Tasks :
           SignedBy(t, "binance") =>
               SignedParams(task[t]) =
                   BinanceQuery(task[t].req.built.params
                                \o task[t].req.built.body.items)
    /\ \A t, u \in Tasks :
           (SignedBy(t, "binance") /\ SignedBy(u, "binance")
              /\ Entries(SignedParams(task[t])) = Entries(SignedParams(task[u]))
              /\ task[t].req.built.params \o task[t].req.built.body.items
                 # task[u].req.built.params \o task[u].req.built.body.items) =>
               /\ SignedParams(task[t]) # SignedParams(task[u])
               /\ SentSignature(task[t]) # SentSignature(task[u])
    /\ \A t \in Tasks :
           SignedBy(t, "huobi") =>
               SignedMessage(task[t]).query =
                   SortByKey([i \in 1..Len(SignedParams(task[t])) |->
                                 KV(SignedParams(task[t])[i].k,
                                    Quote(SignedParams(task[t])[i].v))])
    /\ \A t, u \in Tasks :
           (SignedBy(t, "huobi") /\ SignedBy(u, "huobi")
              /\ task[t].req.method = task[u].req.method
              /\ task[t].req.uri = task[u].req.uri
              /\ task[t].req.key = task[u].req.key
              /\ Entries(SignedParams(task[t])) = Entries(SignedParams(task[u]))) =>
               SentSignature(task[t]) = SentSignature(task[u])

\* C15's case: two Huobi requests with the same entries in different
\* insertion orders are in flight with the same signature, and so are two
\* Binance requests with the same entries in different orders, with
\* different queries.
CanonicalOrderingWitness ==
    \E t, u \in Tasks :
        /\ SignedBy(t, "huobi") /\ SignedBy(u, "huobi")
        /\ task[t].req.built.params # task[u].req.built.params
        /\ Entries(SignedParams(task[t])) = Entries(SignedParams(task[u]))
        /\ SentSignature(task[t]) = SentSignature(task[u])

\* The Binance case of C15: the same entries in two orders, two queries.
BinanceOrderWitness ==
    \E t, u \in Tasks :
        /\ SignedBy(t, "binance") /\ SignedBy(u, "binance")
        /\ Entries(SignedParams(task[t])) = Entries(SignedParams(task[u]))
        /\ SignedParams(task[t]) # SignedParams(task[u])

\* Two callers have signed requests of one adapter in flight that were built
\* from the same method, path, parameters, body, secret and timestamp.
SameSigningInputs(t, u) ==
    /\ SignedRequest(t) /\ SignedRequest(u)
    /\ task[t].ex = task[u].ex
    /\ task[t].req.method = task[u].req.method
    /\ task[t].req.uri = task[u].req.uri
    /\ SignedParams(task[t]) = SignedParams(task[u])
    /\ task[t].req.built.body = task[u].req.built.body
    /\ task[t].req.key = task[u].req.key
    /\ SentTimestamp(task[t]) = SentTimestamp(task[u])

SignedTimestamp(rec) ==
    CASE rec.ex = "huobi" -> Field(SignedMessage(rec).query, "Timestamp").of
      [] rec.ex = "binance" -> Field(SignedMessage(rec), "timestamp")
      [] rec.ex = "okex" -> SignedMessage(rec).timestamp
\* The timestamp adapter ex makes of the single clock reading n.
StampOf(ex, n) ==
    CASE ex = "huobi" -> UtcSeconds(n)
      [] ex = "binance" -> TimestampMs(n)
      [] ex = "okex" -> OkexTimestamp(n, n)
\* Caller t has a signed request in flight that carries a timestamp.
Stamped(t) == SignedRequest(t) /\ SentTimestamp(task[t]) # Absent

\* C17: the timestamp of every authenticated request is the one that was
\* signed, and all of it comes from one reading of the clock, even when the
\* clock advances while the request is built.
TimestampCapturedOnce ==
    \A t \in Tasks :
        Stamped(t) =>
            /\ SignedTimestamp(task[t]) = SentTimestamp(task[t])
            /\ \E n \in ClockStart..clock :
                   SentTimestamp(task[t]) = StampOf(task[t].ex, n)

\* The part of C17 that holds on every adapter: what is signed is what is
\* sent.
SignedIsSent ==
    \A t \in Tasks :
        Stamped(t) => SignedTimestamp(task[t]) = SentTimestamp(task[t])

\* The part of C17 that holds on Huobi and Binance: one clock reading.
OneReadingButOkex ==
    \A t \in Tasks :
        (Stamped(t) /\ task[t].ex # "okex") =>
            \E n \in ClockStart..clock :
                SentTimestamp(task[t]) = StampOf(task[t].ex, n)

\* A caller's record holds a signed request that is in flight or answered.
Signed(rec) ==
    /\ rec.pc \in {"resolving", "sending", "done"}
    /\ rec.fetches > 0
    /\ rec.req.auth
    /\ rec.req.key # None
\* In this step caller t signs a request and hands it to the network call.
Signs(t) == Signed(task'[t]) /\ task'[t].fetches = task[t].fetches + 1

\* C18: the timestamp of a signed request is read in the run that signs it
\* and hands it to the network call, the run that follows the account id
\* resolution where there is one; between the two clock readings of OKEx no
\* other coroutine runs.
StampedInSigningRun ==
    [][\A t \in Tasks :
          /\ (Signs(t) /\ task'[t].ex # "okex"
                /\ SentTimestamp(task'[t]) # Absent) =>
                 /\ clock' = clock
                 /\ SentTimestamp(task'[t]) = StampOf(task'[t].ex, clock)
          /\ (Signs(t) /\ task'[t].ex = "okex") =>
                 /\ task[t].pc = "stamping"
                 /\ clock' = clock
                 /\ SentTimestamp(task'[t]) = OkexTimestamp(task[t].now, clock)
          /\ (task[t].pc # "stamping" /\ task'[t].pc = "stamping") =>
                 task'[t].now = clock
          /\ task[t].pc = "stamping" =>
                 /\ account_id' = account_id
                 /\ \A u \in Tasks \ {t} : task'[u] = task[u]
      ]_vars

\* C18's case: a Huobi operation has its own request in flight after an
\* account id resolution during which the clock advanced, and the request
\* carries another timestamp than the account list request did.
StampedInSigningRunWitness ==
    \E t \in Tasks :
        /\ Signed(task[t])
        /\ UsesCache(task[t])
        /\ task[t].pc = "sending"
        /\ task[t].lookups = 1
        /\ task[t].lookup_timestamp # SentTimestamp(task[t])

\* The account id the operation's own request carries, in its path, its
\* parameters or its body.
IdSent(rec) ==
    CASE rec.op = "get_account_balance" -> Val(rec.req.uri[2])
      [] rec.op = "create_order" -> Field(rec.req.body.items, "account-id")
      [] rec.op = "get_open_orders" -> Field(rec.req.params, "account-id")
\* The operation's account id resolution has failed and the operation has
\* gone on to its own request.
FailedResolution(rec) ==
    /\ UsesCache(rec) /\ rec.lookups = 1
    /\ rec.pc \in {"sending", "done"}
    /\ rec.account_id = None

\* C19: when _get_account_id resumes with an error, or with a list without a
\* spot account, it leaves the cache as it was; the operation then sends its
\* own request, with a null account id in its path, parameters or body, as
\* its second network call; and an operation that needs the id and starts
\* while the cache is unset issues the account list request (a resolution
\* can only have failed on an adapter that has a secret key to sign with).
FailedResolutionSendsAnyway ==
    [][\A t \in Tasks :
          /\ (Resolves(t) /\ task'[t].lookup # "ok") =>
                 task'[t].account_id = None
          /\ (Resolves(t) /\ task'[t].account_id = None) =>
                 /\ account_id' = account_id
                 /\ task'[t].pc = "sending"
                 /\ task'[t].fetches = 2
                 /\ task'[t].req.auth
                 /\ task'[t].req.uri =
                        HuobiIdRequest(task[t].op, task[t].args, None).uri
                 /\ IdSent(task'[t]) = NoneV
          /\ (StartsWithId(t) /\ account_id = None
                /\ secret_key["huobi"] # None) =>
                 /\ task'[t].pc = "resolving"
                 /\ task'[t].lookups = 1
                 /\ task'[t].fetches = 1
                 /\ task'[t].req.uri = <<"/v1/account/accounts">>
      ]_vars

\* C19's case: an operation whose resolution failed on an account list
\* without a spot account has sent its own request with a null id, the
\* cache is unset, and another operation has issued the account list
\* request.
FailedResolutionSendsAnywayWitness ==
    \E t, u \in Tasks :
        /\ FailedResolution(task[t])
        /\ task[t].lookup = "ok"
        /\ task[t].fetches = 2
        /\ IdSent(task[t]) = NoneV
        /\ account_id = None
        /\ UsesCache(task[u]) /\ task[u].pc = "resolving"

====
